---- MODULE Spec2Model ----
(***************************************************************************)
(* Model of GraphRx:                                                       *)
(*   - graphinvent/gnn/summation_mpnn.py : the abstract SummationMPNN      *)
(*     module, its three NotImplementedError hooks and forward(), which    *)
(*     turns a padded batch (nodes, edges) into a neighbour list, runs     *)
(*     message_passes rounds of aggregate_message/update and calls readout *)
(*   - tools/data/MOSES/count_molecules.py : count_molecules_in_smi_file   *)
(*                                                                         *)
(* Tensors are functions over index tuples; feature vectors are tuples of  *)
(* integers.  The hooks a concrete subclass supplies are uninterpreted:    *)
(* the value a hook returns is the term built from its name and its        *)
(* arguments, so every deterministic hook is an image of the model's.      *)
(***************************************************************************)
EXTENDS Integers, Sequences, FiniteSets, TLC

\* ------------------------------------------------------------------ bounds
BatchSize == 2          \* graphs in the padded batch (nodes.shape[0])
NNodes == 2             \* padded node count per graph (nodes.shape[1])
MaxPasses == 2          \* largest message_passes configured
MaxLen == 4             \* characters in the .smi file

Batches == 0 .. (BatchSize - 1)
Nodes == 0 .. (NNodes - 1)
NodePos == Batches \X Nodes
EdgePos == Batches \X Nodes \X Nodes

\* ---------------------------------------------------------- input tensors
ZeroVec(n) == [i \in 1 .. n |-> 0]

\* edge vectors have two features (edges.shape[3]): one-hot bond types, the
\* encoding the data loader produces
OneHotVecs == {<<1, 0>>, <<0, 1>>}

\* forward() accepts any integer tensor: also an edge with two features set
\* (adjacency entry 2) and a negative weight (adjacency entry -1)
WideVecs == OneHotVecs \cup {<<1, 1>>, <<-1, 0>>}

ZeroEdges == [p \in EdgePos |-> <<0, 0>>]

RECURSIVE EdgeTensors(_, _)
\* edges tensors with at most k non-zero edge vectors, each drawn from vecs
EdgeTensors(k, vecs) ==
    IF k <= 0 THEN {ZeroEdges}
    ELSE LET prev == EdgeTensors(k - 1, vecs)
         IN  prev \cup {[t EXCEPT ![p] = w] : t \in prev, p \in EdgePos, w \in vecs}

\* every edge carries a negative weight: all row sums are negative
NegativeEdges == [p \in EdgePos |-> <<-1, 0>>]

\* node feature tensors of width w: a different vector at every node ...
DistinctNodes(w) == [p \in NodePos |-> [i \in 1 .. w |-> 1 + p[1] * NNodes + p[2]]]

\* ... or the zero vector at every node
ZeroNodes(w) == [p \in NodePos |-> ZeroVec(w)]

\* ------------------------------------------- forward(): lines 100 to 123
RECURSIVE SumVec(_, _)
SumVec(vec, n) == IF n = 0 THEN 0 ELSE vec[n] + SumVec(vec, n - 1)

\* adjacency = torch.sum(edges, dim=3)
Adjacency(e) == [p \in EdgePos |-> SumVec(e[p], Len(e[p]))]

RECURSIVE RowSumTo(_, _, _, _)
RowSumTo(adj, b, v, n) ==
    IF n = 0 THEN 0 ELSE adj[<<b, v, n - 1>>] + RowSumTo(adj, b, v, n - 1)

\* adjacency.sum(-1)
RowSum(adj) == [p \in NodePos |-> RowSumTo(adj, p[1], p[2], NNodes)]

RECURSIVE NonzeroRows(_, _)
\* adjacency.sum(-1).nonzero(as_tuple=True): row-major scan of (b, v)
NonzeroRows(rs, k) ==
    IF k = 0 THEN <<>>
    ELSE LET p == <<(k - 1) \div NNodes, (k - 1) % NNodes>>
         IN  IF rs[p] # 0 THEN Append(NonzeroRows(rs, k - 1), p)
             ELSE NonzeroRows(rs, k - 1)

RECURSIVE NonzeroEdges(_, _)
\* adjacency.nonzero(as_tuple=True): row-major scan of (b, v, u)
NonzeroEdges(adj, k) ==
    IF k = 0 THEN <<>>
    ELSE LET q == k - 1
             p == <<q \div (NNodes * NNodes), (q \div NNodes) % NNodes, q % NNodes>>
         IN  IF adj[p] # 0 THEN Append(NonzeroEdges(adj, k - 1), p)
             ELSE NonzeroEdges(adj, k - 1)

RECURSIVE MaxTo(_, _)
\* node_degrees.max() over the flattened row sums (all of them, zero rows too)
MaxTo(rs, k) ==
    LET p == <<(k - 1) \div NNodes, (k - 1) % NNodes>>
    IN  IF k = 1 THEN rs[p]
        ELSE LET m == MaxTo(rs, k - 1) IN IF rs[p] > m THEN rs[p] ELSE m

MaxNodeDegree(adj) == MaxTo(RowSum(adj), BatchSize * NNodes)

RECURSIVE NeighborsIdcAnyBatch(_, _, _)
\* NeighborsIdc without the batch test: the neighbours of node v in every graph
NeighborsIdcAnyBatch(eidc, b, v) ==
    IF eidc = <<>> THEN <<>>
    ELSE LET h == Head(eidc)
             rest == NeighborsIdcAnyBatch(Tail(eidc), b, v)
         IN  IF h[2] = v THEN <<h[3]>> \o rest ELSE rest

RECURSIVE NeighborsIdc(_, _, _)
\* edge_batch_nghb_idc[(edge_batch_batch_idc == b) & (edge_batch_node_idc == v)]
NeighborsIdc(eidc, b, v) ==
    IF eidc = <<>> THEN <<>>
    ELSE LET h == Head(eidc)
             rest == NeighborsIdc(Tail(eidc), b, v)
         IN  IF h[1] = b /\ h[2] = v THEN <<h[3]>> \o rest ELSE rest

\* node_mask = (adjacency.sum(-1) != 0)
NodeMask(adj) == LET rs == RowSum(adj) IN [p \in NodePos |-> rs[p] # 0]

\* what lines 100 to 123 leave in forward()'s locals, or the exception raised:
\* torch.zeros refuses a negative size (line 111), and writing slot j of a
\* tensor with max_node_degree slots fails for j >= max_node_degree (line 121)
NeighborList(nodes, edges, hw, ew) ==
    LET adjacency == Adjacency(edges)
        eidc == NonzeroEdges(adjacency, BatchSize * NNodes * NNodes)
        nidc == NonzeroRows(RowSum(adjacency), BatchSize * NNodes)
        node_batch_size == Len(nidc)
        max_node_degree == MaxNodeDegree(adjacency)
        nbrs(i) == NeighborsIdc(eidc, nidc[i + 1][1], nidc[i + 1][2])
        rows == 0 .. (node_batch_size - 1)
        slots == 0 .. (max_node_degree - 1)
    IN  IF max_node_degree < 0
        THEN [raised |-> "RuntimeError"]
        ELSE IF \E i \in rows : Len(nbrs(i)) > max_node_degree
        THEN [raised |-> "IndexError"]
        ELSE [raised |-> "none",
              node_batch_idc |-> nidc,
              max_node_degree |-> max_node_degree,
              node_batch_node_nghbs |->
                  [i \in rows |-> [j \in slots |->
                      IF j < Len(nbrs(i))
                      THEN nodes[<<nidc[i + 1][1], nbrs(i)[j + 1]>>]
                      ELSE ZeroVec(hw)]],
              node_batch_edges |->
                  [i \in rows |-> [j \in slots |->
                      IF j < Len(nbrs(i))
                      THEN edges[<<nidc[i + 1][1], nidc[i + 1][2], nbrs(i)[j + 1]>>]
                      ELSE ZeroVec(ew)]],
              node_batch_node_nghb_mask |->
                  [i \in rows |-> [j \in slots |->
                      IF j < Len(nbrs(i)) THEN 1 ELSE 0]]]

\* hidden_nodes[node_batch_batch_idc, node_batch_node_idc, :]
Gather(tensor, idc) == [i \in 1 .. Len(idc) |-> tensor[idc[i]]]

\* Scatter that ignores the index tensors: hidden_nodes[:n] = rows, flattened
ScatterLeading(tensor, idc, rows) ==
    [p \in DOMAIN tensor |->
        IF p[1] * NNodes + p[2] < Len(idc)
        THEN rows[p[1] * NNodes + p[2] + 1]
        ELSE tensor[p]]

\* hidden_nodes[node_batch_batch_idc, node_batch_node_idc, :] = rows
Scatter(tensor, idc, rows) ==
    [p \in DOMAIN tensor |->
        IF \E i \in 1 .. Len(idc) : idc[i] = p
        THEN rows[CHOOSE i \in 1 .. Len(idc) : idc[i] = p]
        ELSE tensor[p]]

\* hidden_nodes = nodes: the caller's storage under another name
HiddenAlias(src) == src

\* torch.zeros_like(nodes) is fresh storage, filled from nodes on line 127
HiddenStorage(src) == "hidden"

\* ------------------------------------------------------------- the hooks
BaseMethods == {"message_terms", "update", "readout"}

\* a stub whose body is `pass`: it returns None
BaseHookPass(name, args) == <<"value", <<"None">>>>

\* the stubs of the abstract class: raise NotImplementedError
BaseHook(name, args) == <<"raise", "NotImplementedError">>

\* a hook a concrete subclass defines: a deterministic function of its arguments
SubclassHook(name, args) == <<"value", <<name, args>>>>

\* self.<name>(...): the subclass's method, else the base class's stub, else
\* torch.nn.Module.__getattr__ raises AttributeError
CallHook(defined, name, args) ==
    IF name \in defined THEN SubclassHook(name, args)
    ELSE IF name \in BaseMethods THEN BaseHook(name, args)
    ELSE <<"raise", "AttributeError">>

\* row i of the tensor update() returned
UpdatedRows(ret, n) == [i \in 1 .. n |-> <<"row", i, ret>>]

\* the subclasses of SummationMPNN considered, as the set of hooks each defines
Classes ==
    { {},
      {"message_terms", "update", "readout"},
      {"aggregate_message", "update", "readout"} }

\* --------------------------------------------------------------- the state
VARIABLES
    defined,        \* the hooks the module's class defines (its subclass)
    self,           \* the fields __init__ sets
    mem,            \* tensor storage: the caller's nodes and edges, forward()'s hidden
    hidden_nodes,   \* forward() local: the storage hidden_nodes names
    loc,            \* forward() locals set by lines 100 to 123
    messages,       \* forward() local: what aggregate_message returned
    passes,         \* forward(): completed iterations of the loop on line 129
    output,         \* forward() local: what readout returned
    pc,             \* where the running forward() call stands
    calls,          \* the hook calls of the latest forward(): <<name, args, returned>>
    result,         \* outcome of the latest call: <<operation, "value" | "raise", what>>
    outputs,        \* the values forward() has returned so far
    file,           \* what is at file_path: <<"file", text>> or the error open/read meets
    number_of_molecules  \* outcome of count_molecules_in_smi_file

vars == <<defined, self, mem, hidden_nodes, loc, messages, passes, output, pc,
          calls, result, outputs, file, number_of_molecules>>

mpnnVars == <<defined, self, mem, hidden_nodes, loc, messages, passes, output, pc,
              calls, result, outputs>>

NoTensor == <<>>
NoLocals == [raised |-> "none"]
NoResult == <<"none", "none", "none">>

\* SummationMPNN.__init__: the fields copied from constants
Construct(constants) ==
    [hidden_node_features |-> constants.hidden_node_features,
     edge_features |-> constants.n_edge_features,
     message_size |-> constants.message_size,
     message_passes |-> constants.message_passes,
     constants |-> constants]

Constants(P) ==
    [hidden_node_features |-> 1, n_edge_features |-> 2,
     message_size |-> 1, message_passes |-> P]

InitMPNN(classes, P, nodeInputs, edgeInputs) ==
    /\ defined \in classes
    /\ \E p \in P : self = Construct(Constants(p))
    /\ \E n \in nodeInputs, e \in edgeInputs :
           mem = [nodes |-> n, edges |-> e, hidden |-> NoTensor]
    /\ hidden_nodes = "hidden"
    /\ loc = NoLocals
    /\ messages = NoTensor
    /\ passes = 0
    /\ output = NoTensor
    /\ pc = "idle"
    /\ calls = <<>>
    /\ result = NoResult
    /\ outputs = <<>>

\* a forward() call ends with an exception: its locals are dropped
Raise(op, what) ==
    /\ result' = <<op, "raise", what>>
    /\ pc' = "idle"
    /\ loc' = NoLocals
    /\ messages' = NoTensor
    /\ output' = NoTensor
    /\ passes' = 0
    /\ hidden_nodes' = "hidden"
    /\ mem' = [mem EXCEPT !.hidden = NoTensor]

\* range(self.message_passes + 1): one round too many
AfterRoundExtra(done) == IF done <= self.message_passes THEN "aggregate" ELSE "readout"

\* range(self.message_passes): another round, or on to readout
AfterRound(done) == IF done < self.message_passes THEN "aggregate" ELSE "readout"

\* forward(), lines 100 to 127
ForwardBegin ==
    /\ pc = "idle"
    /\ Len(outputs) < 2
    /\ LET nl == NeighborList(mem.nodes, mem.edges,
                              self.hidden_node_features, self.edge_features)
       IN  IF nl.raised # "none"
           THEN /\ Raise("forward", nl.raised)
                /\ calls' = <<>>
                /\ UNCHANGED <<defined, self, outputs>>
           ELSE /\ loc' = nl
                /\ hidden_nodes' = HiddenStorage("nodes")
                /\ mem' = [mem EXCEPT ![HiddenStorage("nodes")] = mem.nodes]
                /\ passes' = 0
                /\ pc' = AfterRound(0)
                /\ calls' = <<>>
                /\ result' = <<"forward", "running", "none">>
                /\ UNCHANGED <<defined, self, messages, output, outputs>>
    /\ UNCHANGED <<file, number_of_molecules>>

\* forward(), lines 130 to 133
AggregateMessage ==
    /\ pc = "aggregate"
    /\ LET args == <<Gather(mem[hidden_nodes], loc.node_batch_idc),
                     loc.node_batch_node_nghbs, loc.node_batch_edges,
                     loc.node_batch_node_nghb_mask>>
           ret == CallHook(defined, "aggregate_message", args)
       IN  IF ret[1] = "raise"
           THEN /\ Raise("forward", ret[2])
                /\ UNCHANGED <<calls>>
           ELSE /\ messages' = ret[2]
                /\ calls' = Append(calls, <<"aggregate_message", args, ret[2]>>)
                /\ pc' = "update"
                /\ UNCHANGED <<mem, hidden_nodes, loc, passes, output, result>>
    /\ UNCHANGED <<defined, self, outputs, file, number_of_molecules>>

\* forward(), line 134
Update ==
    /\ pc = "update"
    /\ LET args == <<Gather(mem[hidden_nodes], loc.node_batch_idc), messages>>
           ret == CallHook(defined, "update", args)
       IN  IF ret[1] = "raise"
           THEN /\ Raise("forward", ret[2])
                /\ UNCHANGED <<calls>>
           ELSE /\ mem' = [mem EXCEPT ![hidden_nodes] =
                              Scatter(@, loc.node_batch_idc,
                                      UpdatedRows(ret[2], Len(loc.node_batch_idc)))]
                /\ calls' = Append(calls, <<"update", args, ret[2]>>)
                /\ passes' = passes + 1
                /\ pc' = AfterRound(passes + 1)
                /\ UNCHANGED <<hidden_nodes, loc, messages, output, result>>
    /\ UNCHANGED <<defined, self, outputs, file, number_of_molecules>>

\* forward(), lines 136 to 138
Readout ==
    /\ pc = "readout"
    /\ LET args == <<mem[hidden_nodes], mem.nodes, NodeMask(Adjacency(mem.edges))>>
           ret == CallHook(defined, "readout", args)
       IN  IF ret[1] = "raise"
           THEN /\ Raise("forward", ret[2])
                /\ UNCHANGED <<calls>>
           ELSE /\ output' = ret[2]
                /\ calls' = Append(calls, <<"readout", args, ret[2]>>)
                /\ pc' = "return"
                /\ UNCHANGED <<mem, hidden_nodes, loc, messages, passes, result>>
    /\ UNCHANGED <<defined, self, outputs, file, number_of_molecules>>

\* forward(), line 140
Return ==
    /\ pc = "return"
    /\ result' = <<"forward", "value", output>>
    /\ outputs' = Append(outputs, output)
    /\ pc' = "idle"
    /\ loc' = NoLocals
    /\ messages' = NoTensor
    /\ output' = NoTensor
    /\ passes' = 0
    /\ hidden_nodes' = "hidden"
    /\ mem' = [mem EXCEPT !.hidden = NoTensor]
    /\ UNCHANGED <<defined, self, calls, file, number_of_molecules>>

\* a caller invokes one hook directly, every parameter bound to tensor a
DirectCall(name, arity, a) ==
    LET ret == CallHook(defined, name, [i \in 1 .. arity |-> a])
    IN  <<name, ret[1], ret[2]>>

\* module.message_terms(nodes, node_neighbours, edges)
CallMessageTerms ==
    /\ pc = "idle"
    /\ \E a \in {mem.nodes, mem.edges} : result' = DirectCall("message_terms", 3, a)
    /\ UNCHANGED <<defined, self, mem, hidden_nodes, loc, messages, passes, output,
                   pc, calls, outputs, file, number_of_molecules>>

\* module.update(nodes, messages)
CallUpdate ==
    /\ pc = "idle"
    /\ \E a \in {mem.nodes, mem.edges} : result' = DirectCall("update", 2, a)
    /\ UNCHANGED <<defined, self, mem, hidden_nodes, loc, messages, passes, output,
                   pc, calls, outputs, file, number_of_molecules>>

\* module.readout(hidden_nodes, input_nodes, node_mask)
CallReadout ==
    /\ pc = "idle"
    /\ \E a \in {mem.nodes, mem.edges} : result' = DirectCall("readout", 3, a)
    /\ UNCHANGED <<defined, self, mem, hidden_nodes, loc, messages, passes, output,
                   pc, calls, outputs, file, number_of_molecules>>

\* ------------------------------------------------- count_molecules.py
NotFoundMessage == "File not found. Please check the file path."

\* the exception class CPython raises for an errno of open()
OSErrorClass(errno) ==
    CASE errno = "ENOENT" -> "FileNotFoundError"
      [] errno = "EISDIR" -> "IsADirectoryError"
      [] errno = "EACCES" -> "PermissionError"
      [] errno = "ENOTDIR" -> "NotADirectoryError"
      [] OTHER -> "OSError"

\* except OSError: every failure of open() becomes the message
HandledAnyOSError(exc) == exc # "UnicodeDecodeError"

\* except FileNotFoundError:
Handled(exc) == exc = "FileNotFoundError"

RECURSIVE UniversalNewlines(_)
\* text mode with newline=None: "\r\n" and a lone "\r" read as "\n"
UniversalNewlines(text) ==
    IF text = <<>> THEN <<>>
    ELSE IF Head(text) = "\r" /\ Len(text) >= 2 /\ text[2] = "\n"
         THEN <<"\n">> \o UniversalNewlines(Tail(Tail(text)))
    ELSE IF Head(text) = "\r" THEN <<"\n">> \o UniversalNewlines(Tail(text))
    ELSE <<Head(text)>> \o UniversalNewlines(Tail(text))

RECURSIVE Readlines(_, _)
\* file.readlines(): the lines, each with its line end; cur is the line being read
Readlines(text, cur) ==
    IF text = <<>> THEN (IF cur = <<>> THEN <<>> ELSE <<cur>>)
    ELSE IF Head(text) = "\n"
         THEN <<Append(cur, "\n")>> \o Readlines(Tail(text), <<>>)
    ELSE Readlines(Tail(text), Append(cur, Head(text)))

\* count_molecules_in_smi_file(file_path), with `at` what file_path leads to
CountMoleculesInSmiFile(at) ==
    IF at[1] = "error"
    THEN LET exc == OSErrorClass(at[2])
         IN  IF Handled(exc) THEN <<"count", "value", <<"str", NotFoundMessage>>>>
             ELSE <<"count", "raise", <<"exc", exc>>>>
    ELSE IF at[1] = "binary"
    THEN <<"count", "raise", <<"exc", "UnicodeDecodeError">>>>
    ELSE <<"count", "value",
           <<"int", Len(Readlines(UniversalNewlines(at[2]), <<>>))>>>>

\* the script's call on line 11
CountMolecules ==
    /\ number_of_molecules = NoResult
    /\ number_of_molecules' = CountMoleculesInSmiFile(file)
    /\ UNCHANGED <<mpnnVars, file>>

RECURSIVE Texts(_)
Texts(n) ==
    IF n = 0 THEN {<<>>}
    ELSE Texts(n - 1) \cup {Append(t, c) : t \in Texts(n - 1), c \in {"C", "\n", "\r"}}

Files ==
    {<<"text", t>> : t \in Texts(MaxLen)}
    \cup {<<"error", e>> : e \in {"ENOENT", "EISDIR", "EACCES", "ENOTDIR"}}
    \cup {<<"binary", <<>>>>}

\* ------------------------------------------------------- specifications
\* message passing on well-formed (one-hot) batches, every class
Init ==
    /\ InitMPNN(Classes, 0 .. MaxPasses, {DistinctNodes(1)}, EdgeTensors(2, OneHotVecs))
    /\ file = <<"error", "ENOENT">>
    /\ number_of_molecules = NoResult

Next ==
    \/ ForwardBegin
    \/ AggregateMessage
    \/ Update
    \/ Readout
    \/ Return

Spec == Init /\ [][Next]_vars

\* the hooks called directly, on every class
InitHooks ==
    /\ InitMPNN(Classes, {0}, {DistinctNodes(1), ZeroNodes(1)}, EdgeTensors(1, OneHotVecs))
    /\ file = <<"error", "ENOENT">>
    /\ number_of_molecules = NoResult

NextHooks ==
    \/ CallMessageTerms
    \/ CallUpdate
    \/ CallReadout

SpecHooks == InitHooks /\ [][NextHooks]_vars

\* the neighbour-list conversion on any integer edges tensor
InitConv ==
    /\ InitMPNN({{"aggregate_message", "update", "readout"}}, 0 .. 1,
                {DistinctNodes(1), ZeroNodes(1)},
                EdgeTensors(2, WideVecs) \cup {NegativeEdges})
    /\ file = <<"error", "ENOENT">>
    /\ number_of_molecules = NoResult

SpecConv == InitConv /\ [][Next]_vars

\* the counting script
InitCount ==
    /\ InitMPNN({{}}, {0}, {ZeroNodes(1)}, {ZeroEdges})
    /\ file \in Files
    /\ number_of_molecules = NoResult

NextCount == CountMolecules

SpecCount == InitCount /\ [][NextCount]_vars

\* ------------------------------------------------------------- the claims
InForward == pc \in {"aggregate", "update", "readout", "return"}
Returned == pc = "idle" /\ result[1] = "forward" /\ result[2] = "value"

\* the hook the k-th call of a forward() with message_passes rounds must be
ExpectedHook(k) ==
    IF k > 2 * self.message_passes THEN "readout"
    ELSE IF k % 2 = 1 THEN "aggregate_message" ELSE "update"

\* C1: the hook calls of a forward() are (aggregate_message, update) repeated
\* message_passes times and then readout once, nothing after readout; each
\* update receives the messages the aggregate_message call of its round
\* returned; and a forward() that returns has made all 2 * message_passes + 1
\* calls and returns exactly what readout returned.
C1_HookOrder ==
    /\ Len(calls) <= 2 * self.message_passes + 1
    /\ \A k \in 1 .. Len(calls) : calls[k][1] = ExpectedHook(k)
    /\ \A k \in 1 .. Len(calls) :
           calls[k][1] = "update" => calls[k][2][2] = calls[k - 1][3]
    /\ Returned =>
           /\ Len(calls) = 2 * self.message_passes + 1
           /\ result[3] = calls[Len(calls)][3]

C1_Witness ==
    /\ Returned
    /\ self.message_passes = 2
    /\ Len(calls) = 5
    /\ Len(calls[1][2][1]) = 2

\* the neighbours of node v of graph b, as the claims define them
Nghbs(adj, b, v) == {u \in Nodes : adj[<<b, v, u>>] # 0}

\* the j-th neighbour in ascending order, j from 0
NthNghb(N, j) == CHOOSE u \in N : Cardinality({w \in N : w < u}) = j

RowOrder(p, q) == p[1] < q[1] \/ (p[1] = q[1] /\ p[2] < q[2])

\* C2: once forward() has built the neighbour list, the rows of the node batch
\* are exactly the (b, v) with a non-zero adjacency row sum, in ascending
\* (b, v) order; in row i, slot j below the number k of neighbours of (b, v)
\* holds nodes[b, u_j], edges[b, v, u_j] and mask 1 for the j-th smallest
\* neighbour u_j, and every slot from k on holds zero features and mask 0.
C2_NeighbourList ==
    InForward =>
        LET adj == Adjacency(mem.edges)
            rs == RowSum(adj)
            idc == loc.node_batch_idc
            slots == 0 .. (loc.max_node_degree - 1)
        IN  /\ {idc[i] : i \in 1 .. Len(idc)} = {p \in NodePos : rs[p] # 0}
            /\ \A i, k \in 1 .. Len(idc) : i < k => RowOrder(idc[i], idc[k])
            /\ DOMAIN loc.node_batch_node_nghbs = 0 .. (Len(idc) - 1)
            /\ DOMAIN loc.node_batch_edges = 0 .. (Len(idc) - 1)
            /\ DOMAIN loc.node_batch_node_nghb_mask = 0 .. (Len(idc) - 1)
            /\ \A i \in 1 .. Len(idc) :
                   LET b == idc[i][1]
                       v == idc[i][2]
                       N == Nghbs(adj, b, v)
                   IN  /\ Cardinality(N) <= loc.max_node_degree
                       /\ DOMAIN loc.node_batch_node_nghbs[i - 1] = slots
                       /\ DOMAIN loc.node_batch_edges[i - 1] = slots
                       /\ DOMAIN loc.node_batch_node_nghb_mask[i - 1] = slots
                       /\ \A j \in slots :
                              IF j < Cardinality(N)
                              THEN /\ loc.node_batch_node_nghbs[i - 1][j]
                                        = mem.nodes[<<b, NthNghb(N, j)>>]
                                   /\ loc.node_batch_edges[i - 1][j]
                                        = mem.edges[<<b, v, NthNghb(N, j)>>]
                                   /\ loc.node_batch_node_nghb_mask[i - 1][j] = 1
                              ELSE /\ loc.node_batch_node_nghbs[i - 1][j] = <<0>>
                                   /\ loc.node_batch_edges[i - 1][j] = <<0, 0>>
                                   /\ loc.node_batch_node_nghb_mask[i - 1][j] = 0

\* two rows from different graphs with the same node index, padding slots,
\* and node features that are not zero
C2_Witness ==
    /\ InForward
    /\ Len(loc.node_batch_idc) = 2
    /\ loc.node_batch_idc[1][1] # loc.node_batch_idc[2][1]
    /\ loc.node_batch_idc[1][2] = loc.node_batch_idc[2][2]
    /\ loc.max_node_degree = 2
    /\ mem.nodes = DistinctNodes(1)

\* C3 (as claimed): a subclass that defines exactly message_terms, update and
\* readout runs forward() with message_passes >= 1 on a batch with an edge
\* without an error raised for a missing method.
C3_TermsSubclassRuns ==
    ( /\ defined = {"message_terms", "update", "readout"}
      /\ self.message_passes >= 1
      /\ mem.edges # ZeroEdges
      /\ result[1] = "forward" )
    => result[2] # "raise"

\* C4: on the abstract base class, a direct call of message_terms, update or
\* readout ends in NotImplementedError, returns no value, and leaves the
\* module's fields, its class and the tensors it was given unchanged.
C4_StubsRaise ==
    [][ (defined = {} /\ result' # result) =>
            /\ result'[1] \in BaseMethods
            /\ result'[2] = "raise"
            /\ result'[3] = "NotImplementedError"
            /\ UNCHANGED <<defined, self, mem>> ]_vars

C4_Witness ==
    /\ defined = {}
    /\ result[1] = "update"
    /\ result[2] = "raise"

\* the largest number of neighbours of any node of the batch
MaxDegree(adj) ==
    CHOOSE d \in 0 .. NNodes :
        /\ \A p \in NodePos : Cardinality(Nghbs(adj, p[1], p[2])) <= d
        /\ \E p \in NodePos : Cardinality(Nghbs(adj, p[1], p[2])) = d

\* C5 (as claimed): for every edges tensor, building the neighbour list raises
\* nothing and the slot dimension is the largest number of neighbours of any
\* node.
C5_SlotsAreMaxDegree ==
    /\ (result[1] = "forward" /\ result[2] = "raise")
           => result[3] \notin {"IndexError", "RuntimeError"}
    /\ InForward => loc.max_node_degree = MaxDegree(Adjacency(mem.edges))

\* C6: with no file at the path the function returns the fixed message; the
\* message is returned for that failure only, and every other failure of
\* opening or reading the file is raised to the caller.
C6_OnlyNotFoundHandled ==
    number_of_molecules # NoResult =>
        /\ file = <<"error", "ENOENT">> =>
               /\ number_of_molecules[2] = "value"
               /\ number_of_molecules[3] = <<"str", NotFoundMessage>>
        /\ (number_of_molecules[2] = "value" /\ number_of_molecules[3][1] = "str")
               => file = <<"error", "ENOENT">>
        /\ (file[1] # "text" /\ file # <<"error", "ENOENT">>)
               => number_of_molecules[2] = "raise"

C6_Witness ==
    /\ file = <<"error", "ENOENT">>
    /\ number_of_molecules[2] = "value"

\* C7: no step of forward() changes the caller's nodes or edges or the module's
\* fields, and the second forward() on the same inputs returns what the first
\* returned.
C7_NoStateKept ==
    [][ /\ mem'.nodes = mem.nodes
        /\ mem'.edges = mem.edges
        /\ self' = self
        /\ Len(outputs') = 2 => outputs'[1] = outputs'[2] ]_vars

C7_Witness ==
    /\ Len(outputs) = 2
    /\ self.message_passes = 2
    /\ mem.edges # ZeroEdges

\* C8 (as claimed): the node_mask readout receives is true at (b, v) exactly
\* when node v of graph b has a neighbour; readout also receives the final
\* hidden_nodes and the input nodes.
C8_MaskIsHasNeighbour ==
    (Len(calls) > 0 /\ calls[Len(calls)][1] = "readout") =>
        LET args == calls[Len(calls)][2]
            adj == Adjacency(mem.edges)
        IN  /\ \A p \in NodePos : args[3][p] = (Nghbs(adj, p[1], p[2]) # {})
            /\ args[2] = mem.nodes

\* C9: while forward() runs, hidden_nodes equals the input nodes at every
\* (b, v) whose adjacency row sum is zero, after every round and in what
\* readout is given; only rows with a non-zero row sum are overwritten.
C9_ZeroRowsKept ==
    /\ InForward =>
           LET rs == RowSum(Adjacency(mem.edges))
           IN  \A p \in NodePos : rs[p] = 0 => mem[hidden_nodes][p] = mem.nodes[p]
    /\ \A k \in 1 .. Len(calls) :
           calls[k][1] = "readout" =>
               LET rs == RowSum(Adjacency(mem.edges))
               IN  \A p \in NodePos : rs[p] = 0 => calls[k][2][1][p] = mem.nodes[p]

\* after two rounds, with updated rows that do not lead the batch
C9_Witness ==
    /\ pc = "return"
    /\ passes = 2
    /\ Len(loc.node_batch_idc) = 2
    /\ loc.node_batch_idc[1] # <<0, 0>>
====
